---- MODULE Spec2Model ----
(***************************************************************************)
(* Model of the data normalization layer and the main pipeline of autosend:*)
(*   src/hourly_auto_send.py  (station observations, O-A0001-001)          *)
(*   src/weekly_auto_send.py  (12-hourly forecast,   F-D0047-091)          *)
(*                                                                         *)
(* Python strings are TLA+ strings (Len, SubSeq and \o act on them).       *)
(* TLA+ strings are ASCII, so the non-ASCII literals of the source are     *)
(* written with ASCII stand-ins, named where they are defined.             *)
(***************************************************************************)
EXTENDS Integers, Sequences, FiniteSets, TLC

VARIABLES
    variant,      \* which script runs: "hourly" or "weekly"
    localOffset,  \* UTC offset (minutes) of the host's local time zone
    timeArg,      \* the string the next convert_to_local_time call receives
    timeCalls,    \* the calls of convert_to_local_time made so far
    data,         \* the envelope handed to parse_weather_data
    parsed,       \* the outcome of parse_weather_data
    pc,           \* the step main() is at
    creds,        \* the state of the three credential files
    events,       \* what the run did so far: "loaded", "GET", "POST", "delivered"
    disk,         \* the files the run left on disk: "debug", "report"
    status,       \* "running", or the exit status of the process
    caught        \* the exception main() caught: [stage, what]

vars == <<variant, localOffset, timeArg, timeCalls, data, parsed,
          pc, creds, events, disk, status, caught>>

-----------------------------------------------------------------------------
(* Strings *)

Digits == "0123456789"

\* The characters of the model's strings in code point order; "~" stands for
\* the three CJK code points of the "no data" marker, above all of ASCII.
Alphabet == " +-./0123456789:<>TXZabcdeklnortuwy~"

CharAt(s, i) == SubSeq(s, i, i)

Contains(s, c) == \E i \in 1..Len(s) : CharAt(s, i) = c

\* python: s[a:b] with 0 <= a (0-based, end exclusive, clipped to the string)
Slice(s, a, b) == SubSeq(s, a + 1, IF b < Len(s) THEN b ELSE Len(s))

AllDigits(s) == \A i \in 1..Len(s) : Contains(Digits, CharAt(s, i))

DigitVal(c) == (CHOOSE i \in 1..10 : CharAt(Digits, i) = c) - 1

RECURSIVE ToInt(_)
\* python: int(s) for a non-empty string of ASCII digits
ToInt(s) == IF Len(s) = 0 THEN 0
            ELSE 10 * ToInt(SubSeq(s, 1, Len(s) - 1)) + DigitVal(CharAt(s, Len(s)))

\* python: "%02d" % n, as strftime pads a field
Pad2(n) == CharAt(Digits, (n \div 10) + 1) \o CharAt(Digits, (n % 10) + 1)

RECURSIVE ReplaceZ(_)
\* python: utc_time_str.replace('Z', '+00:00')
ReplaceZ(s) == IF Len(s) = 0 THEN ""
               ELSE (IF CharAt(s, 1) = "Z" THEN "+00:00" ELSE CharAt(s, 1))
                    \o ReplaceZ(SubSeq(s, 2, Len(s)))

\* python: s.find(c) (0-based; -1 when absent)
Find(s, c) == IF Contains(s, c)
              THEN (CHOOSE i \in 1..Len(s) :
                       CharAt(s, i) = c /\ \A j \in 1..(i - 1) : CharAt(s, j) # c) - 1
              ELSE -1

\* python: s.split('T')[1], for s containing 'T'
SplitT1(s) ==
    LET rest == SubSeq(s, Find(s, "T") + 2, Len(s))
    IN  IF Contains(rest, "T") THEN SubSeq(rest, 1, Find(rest, "T")) ELSE rest

CharRank(c) == CHOOSE i \in 1..Len(Alphabet) : CharAt(Alphabet, i) = c

RECURSIVE StrLess(_, _)
\* python: a < b on str (code point order)
StrLess(a, b) ==
    IF Len(b) = 0 THEN FALSE
    ELSE IF Len(a) = 0 THEN TRUE
    ELSE IF CharAt(a, 1) = CharAt(b, 1)
         THEN StrLess(SubSeq(a, 2, Len(a)), SubSeq(b, 2, Len(b)))
         ELSE CharRank(CharAt(a, 1)) < CharRank(CharAt(b, 1))

-----------------------------------------------------------------------------
(* datetime: fromisoformat, astimezone, strftime *)

TW_TIMEZONE == 480

IsLeap(y) == (y % 4 = 0 /\ y % 100 # 0) \/ y % 400 = 0

DaysIn(y, m) == IF m = 2 THEN (IF IsLeap(y) THEN 29 ELSE 28)
                ELSE IF m \in {4, 6, 9, 11} THEN 30 ELSE 31

NoDate == [ok |-> FALSE, Y |-> 0, M |-> 0, D |-> 0, h |-> 0, m |-> 0,
           aware |-> FALSE, off |-> 0]

\* _parse_hh_mm_ss_ff on "HH", "HH:MM" or "HH:MM:SS" (no fraction)
ParseHMS(t) ==
    IF /\ Len(t) \in {2, 5, 8}
       /\ AllDigits(Slice(t, 0, 2))
       /\ Len(t) >= 5 => (CharAt(t, 3) = ":" /\ AllDigits(Slice(t, 3, 5)))
       /\ Len(t) >= 8 => (CharAt(t, 6) = ":" /\ AllDigits(Slice(t, 6, 8)))
    THEN [ok |-> TRUE, len |-> Len(t),
          h  |-> ToInt(Slice(t, 0, 2)),
          m  |-> IF Len(t) >= 5 THEN ToInt(Slice(t, 3, 5)) ELSE 0,
          s  |-> IF Len(t) >= 8 THEN ToInt(Slice(t, 6, 8)) ELSE 0]
    ELSE [ok |-> FALSE, len |-> Len(t), h |-> 0, m |-> 0, s |-> 0]

\* datetime(...) range checks on the date fields
CheckDate(Y, M, D) ==
    [ok |-> Y \in 1..9999 /\ M \in 1..12 /\ D \in 1..DaysIn(Y, M),
     Y |-> Y, M |-> M, D |-> D]

\* _parse_isoformat_date on the first ten characters
ParseDate(dstr) ==
    IF /\ Len(dstr) = 10
       /\ AllDigits(Slice(dstr, 0, 4))
       /\ CharAt(dstr, 5) = "-"
       /\ AllDigits(Slice(dstr, 5, 7))
       /\ CharAt(dstr, 8) = "-"
       /\ AllDigits(Slice(dstr, 8, 10))
    THEN CheckDate(ToInt(Slice(dstr, 0, 4)), ToInt(Slice(dstr, 5, 7)),
                   ToInt(Slice(dstr, 8, 10)))
    ELSE [ok |-> FALSE, Y |-> 0, M |-> 0, D |-> 0]

\* a time of day without UTC offset
NaiveTime(t) ==
    [ok |-> t.ok /\ t.h <= 23 /\ t.m <= 59 /\ t.s <= 59,
     h |-> t.h, m |-> t.m, aware |-> FALSE, off |-> 0]

\* a time of day with the UTC offset sign * z (read as HH:MM)
AwareTime(t, z, sign) ==
    [ok |-> /\ t.ok /\ t.h <= 23 /\ t.m <= 59 /\ t.s <= 59
            /\ z.ok /\ z.len = 5 /\ z.h * 60 + z.m < 1440,
     h |-> t.h, m |-> t.m, aware |-> TRUE, off |-> sign * (z.h * 60 + z.m)]

\* _parse_isoformat_time, given the place tzpos of the offset's sign (or -1)
SplitTime(tstr, tzpos) ==
    IF tzpos < 0 THEN NaiveTime(ParseHMS(tstr))
    ELSE AwareTime(ParseHMS(Slice(tstr, 0, tzpos)),
                   ParseHMS(SubSeq(tstr, tzpos + 2, Len(tstr))),
                   IF CharAt(tstr, tzpos + 1) = "-" THEN -1 ELSE 1)

\* tstr.find('-') + 1 or tstr.find('+') + 1, less one
TzPos(mpos, ppos) == IF mpos >= 0 THEN mpos ELSE ppos

ParseTime(tstr) == SplitTime(tstr, TzPos(Find(tstr, "-"), Find(tstr, "+")))

Assemble(d, t) ==
    IF d.ok /\ t.ok
    THEN [ok |-> TRUE, Y |-> d.Y, M |-> d.M, D |-> d.D, h |-> t.h, m |-> t.m,
          aware |-> t.aware, off |-> t.off]
    ELSE NoDate

Midnight == [ok |-> TRUE, h |-> 0, m |-> 0, aware |-> FALSE, off |-> 0]

\* datetime.fromisoformat(s) for the extended format
\*   YYYY-MM-DD[*HH[:MM[:SS]][(+|-)HH:MM]]
\* which every CPython since 3.7 reads alike; ok is FALSE where it raises.
fromisoformat(s) ==
    IF Len(s) = 10 THEN Assemble(ParseDate(s), Midnight)
    ELSE Assemble(ParseDate(Slice(s, 0, 10)), ParseTime(SubSeq(s, 12, Len(s))))

RECURSIVE ShiftDate(_, _, _, _)
\* the date k days after (k < 0: before) Y-M-D, as <<Y, M, D>>
ShiftDate(Y, M, D, k) ==
    IF k = 0 THEN <<Y, M, D>>
    ELSE IF k > 0
         THEN IF D < DaysIn(Y, M) THEN ShiftDate(Y, M, D + 1, k - 1)
              ELSE IF M < 12 THEN ShiftDate(Y, M + 1, 1, k - 1)
              ELSE ShiftDate(Y + 1, 1, 1, k - 1)
    ELSE IF D > 1 THEN ShiftDate(Y, M, D - 1, k + 1)
         ELSE IF M > 1 THEN ShiftDate(Y, M - 1, DaysIn(Y, M - 1), k + 1)
         ELSE ShiftDate(Y - 1, 12, 31, k + 1)


\* strftime("%m/%d %H:%M") of the date d = <<Y, M, D>> and minute of day mins
Format(d, mins) ==
    [ok  |-> d[1] \in 1..9999,
     str |-> Pad2(d[2]) \o "/" \o Pad2(d[3]) \o " "
             \o Pad2(mins \div 60) \o ":" \o Pad2(mins % 60)]

\* the local date and time, total minutes after dt's midnight
Shifted(dt, total) ==
    Format(ShiftDate(dt.Y, dt.M, dt.D, (total - (total % 1440)) \div 1440), total % 1440)

\* dt.astimezone(TW_TIMEZONE).strftime("%m/%d %H:%M"); a naive dt is taken to
\* be in the host's local zone (sys). ok is FALSE where dt is none or the year
\* leaves 1..9999.
LocalDisplay(dt, sys) ==
    IF ~dt.ok THEN [ok |-> FALSE, str |-> ""]
    ELSE Shifted(dt, dt.h * 60 + dt.m - (IF dt.aware THEN dt.off ELSE sys)
                     + TW_TIMEZONE)

\* the except branch of the hourly convert_to_local_time (s holds a 'T')
HourlyFallback(s) == [res |-> Slice(SplitT1(s), 0, 5), path |-> "substring"]

\* the except branch of the weekly convert_to_local_time
WeeklyFallback(s) ==
    IF Contains(s, "T") THEN [res |-> Slice(SplitT1(s), 0, 5), path |-> "substring"]
    ELSE [res |-> "", path |-> "dropped"]

\* the try block: the formatted time, or the fallback where it raised
TryDisplay(ld, fallback) ==
    IF ld.ok THEN [res |-> ld.str, path |-> "converted"] ELSE fallback

\* hourly convert_to_local_time: the result and the branch that produced it
ConvertHourly(s, sys) ==
    IF s = "" THEN [res |-> "", path |-> "empty"]
    ELSE IF ~Contains(s, "T") THEN [res |-> s, path |-> "passthrough"]
    ELSE TryDisplay(LocalDisplay(fromisoformat(ReplaceZ(s)), sys), HourlyFallback(s))

\* weekly convert_to_local_time
ConvertWeekly(s, sys) ==
    IF s = "" THEN [res |-> "", path |-> "empty"]
    ELSE TryDisplay(LocalDisplay(fromisoformat(ReplaceZ(s)), sys), WeeklyFallback(s))

-----------------------------------------------------------------------------
(* JSON values.  A value is [k, v]: k is its JSON type, v the text python's   *)
(* str() gives for it.  "absent" is a missing key (or None).                  *)

Absent == [k |-> "absent", v |-> ""]

Str(s) == [k |-> "str", v |-> s]

\* a JSON number, by its python repr: Num("-99.0") is the float -99.0
Num(r) == [k |-> "num", v |-> r]

\* an element wrapped as {"value": <string>} / {"value": <number>} / {}
DictStr(s) == [k |-> "dict_str", v |-> s]

DictNum(r) == [k |-> "dict_num", v |-> r]

DictEmpty == [k |-> "dict", v |-> ""]

\* python truth value of a string, number or None
Truthy(val) ==
    CASE val.k = "str" -> val.v # ""
      [] val.k = "num" -> val.v \notin {"0", "0.0", "-0.0"}
      [] OTHER         -> val.k # "absent"

\* python: val in (<string literals>): a number never equals a string
InStrings(val, lits) == val.k = "str" /\ val.v \in lits

\* python: d.get(key, "") read as a value
GetOrEmpty(val) == IF val.k = "absent" THEN Str("") ELSE val

-----------------------------------------------------------------------------
(* hourly parse_weather_data: field resolution *)

\* ASCII stand-ins for the literals of src/hourly_auto_send.py
UnknownCounty == "<unknown county>"
TraceMarker == "<trace>"
NoDataMarker == "~~~"

SENTINELS == {"-99", "-99.0", "-999", "NA", "X", ""}

PRECIP_SENTINELS == SENTINELS \cup {"-98"}

ElementKeys == {"AirPressure", "AirTemperature", "WindDirection", "WindSpeed",
                "RelativeHumidity", "Weather", "Gust", "GUST",
                "Precipitation", "Rainfall", "RAIN"}

NoElements == [key \in ElementKeys |-> Absent]

NoSub == [k |-> "absent", v |-> Absent]

\* station.get("WeatherElement", {}) and its GustInfo / Now members
Elements(st) == IF st.WeatherElement.k = "dict" THEN st.WeatherElement.e ELSE NoElements

GustInfo(st) == IF st.WeatherElement.k = "dict" THEN st.WeatherElement.GustInfo ELSE NoSub

Now(st) == IF st.WeatherElement.k = "dict" THEN st.WeatherElement.Now ELSE NoSub

\* get_value(key): unwrap one level of {"value": ...}, drop sentinel strings
get_value(elements, key) ==
    LET val0 == GetOrEmpty(elements[key])
        val  == CASE val0.k = "dict_str" -> Str(val0.v)
                  [] val0.k = "dict_num" -> Num(val0.v)
                  [] val0.k = "dict"     -> Str("")
                  [] OTHER               -> val0
    IN  IF InStrings(val, SENTINELS) THEN "" ELSE val.v

\* the gust fallback chain: GustInfo.PeakGustSpeed, Gust, GUST
gust_value(st) ==
    LET gi   == GustInfo(st)
        gust == GetOrEmpty(gi.v)
        m1   == IF gi.k = "dict" /\ Truthy(gust) /\ ~InStrings(gust, SENTINELS)
                THEN gust.v ELSE ""
        m2   == IF m1 = "" THEN get_value(Elements(st), "Gust") ELSE m1
    IN  IF m2 = "" THEN get_value(Elements(st), "GUST") ELSE m2

\* the rainfall fallback chain: Now.Precipitation, Precipitation, Rainfall, RAIN
rainfall_value(st) ==
    LET now    == Now(st)
        precip == GetOrEmpty(now.v)
        m1     == IF now.k = "dict" /\ Truthy(precip)
                     /\ ~InStrings(precip, PRECIP_SENTINELS)
                  THEN (IF InStrings(precip, {"T"}) THEN TraceMarker ELSE precip.v)
                  ELSE ""
        p2     == get_value(Elements(st), "Precipitation")
        m2     == IF m1 # "" THEN m1
                  ELSE IF p2 = "" THEN ""
                  ELSE IF p2 = "T" THEN TraceMarker ELSE p2
        m3     == IF m2 = "" THEN get_value(Elements(st), "Rainfall") ELSE m2
    IN  IF m3 = "" THEN get_value(Elements(st), "RAIN") ELSE m3

\* a region lookup that defaults to the empty string
county_name_no_default(st) ==
    IF st.GeoInfo.k = "dict" /\ st.GeoInfo.CountyName.k # "absent"
    THEN st.GeoInfo.CountyName.v ELSE ""

\* geo_info.get("CountyName", <unknown county>)
county_name(st) ==
    IF st.GeoInfo.k = "dict" /\ st.GeoInfo.CountyName.k # "absent"
    THEN st.GeoInfo.CountyName.v ELSE UnknownCounty

\* obs_time.get("DateTime", "") if isinstance(obs_time, dict) else ""
datetime_str(st) ==
    IF st.ObsTime.k = "dict" THEN GetOrEmpty(st.ObsTime.DateTime).v ELSE ""

\* local_time or <no data>
TimeOrNoData(local_time) == IF local_time # "" THEN local_time ELSE NoDataMarker

\* the row of one station (the body of the loop over stations)
BuildRow(st, sys) ==
    [StationName      |-> GetOrEmpty(st.StationName).v,
     Time             |-> TimeOrNoData(ConvertHourly(datetime_str(st), sys).res),
     DateTime         |-> datetime_str(st),
     CountyName       |-> county_name(st),
     AirPressure      |-> get_value(Elements(st), "AirPressure"),
     AirTemperature   |-> get_value(Elements(st), "AirTemperature"),
     WindDirection    |-> get_value(Elements(st), "WindDirection"),
     WindSpeed        |-> get_value(Elements(st), "WindSpeed"),
     Gust             |-> gust_value(st),
     Rainfall         |-> rainfall_value(st),
     RelativeHumidity |-> get_value(Elements(st), "RelativeHumidity"),
     Weather          |-> get_value(Elements(st), "Weather")]

-----------------------------------------------------------------------------
(* Grouping index (both variants) *)

EmptyMap == <<>>

\* a grouping that keeps only the last row of each region
GroupAppendOverwrite(acc, key, row) ==
    IF key \in DOMAIN acc THEN [acc EXCEPT ![key] = <<row>>]
    ELSE acc @@ (key :> <<row>>)

\* grouped_data.setdefault(key, []).append(row)
GroupAppend(acc, key, row) ==
    IF key \in DOMAIN acc THEN [acc EXCEPT ![key] = Append(@, row)]
    ELSE acc @@ (key :> <<row>>)

RECURSIVE GroupRows(_, _, _)
\* the loop "for row in rows": the first n rows grouped by row[field]
GroupRows(rows, field, n) ==
    IF n = 0 THEN EmptyMap
    ELSE GroupAppend(GroupRows(rows, field, n - 1), rows[n][field], rows[n])

RECURSIVE InsertAsc(_, _)
\* x put after every element whose time is not greater than its own
InsertAsc(sorted, x) ==
    IF sorted = <<>> THEN <<x>>
    ELSE IF StrLess(x.Time, Head(sorted).Time) THEN <<x>> \o sorted
    ELSE <<Head(sorted)>> \o InsertAsc(Tail(sorted), x)

RECURSIVE SortAsc(_)
\* weekly: rows.sort(key=lambda x: x["time"])  (stable)
SortAsc(items) ==
    IF items = <<>> THEN <<>>
    ELSE InsertAsc(SortAsc(SubSeq(items, 1, Len(items) - 1)), items[Len(items)])

RECURSIVE InsertDesc(_, _)
\* x put after every element whose time is not smaller than its own
InsertDesc(sorted, x) ==
    IF sorted = <<>> THEN <<x>>
    ELSE IF StrLess(Head(sorted).Time, x.Time) THEN <<x>> \o sorted
    ELSE <<Head(sorted)>> \o InsertDesc(Tail(sorted), x)

\* a group left in arrival order
SortDescSkipped(items) == items

RECURSIVE SortDesc(_)
\* hourly: items.sort(key=lambda x: x["time"], reverse=True)  (stable)
SortDesc(items) ==
    IF items = <<>> THEN <<>>
    ELSE InsertDesc(SortDesc(SubSeq(items, 1, Len(items) - 1)), items[Len(items)])

\* safe_id(name): prefix + md5(name).hexdigest()[:8], kept symbolic
safe_id(prefix, name) == prefix \o "md5(" \o name \o ")"

Raised(error, rows) ==
    [status |-> "raised", error |-> error, rows |-> rows,
     grouped |-> EmptyMap, id_map |-> EmptyMap]

Returned(rows, grouped, id_map) ==
    [status |-> "returned", error |-> "", rows |-> rows,
     grouped |-> grouped, id_map |-> id_map]

\* the sorted groups and the identifiers of the grouped rows
HourlyResult(rows, groups) ==
    Returned(rows,
             [c \in DOMAIN groups |-> SortDesc(groups[c])],
             [c \in DOMAIN groups |-> safe_id("station-", c)])

\* the statistics (a division by the number of rows) and the grouping
HourlyOutcome(rows) ==
    IF Len(rows) = 0 THEN Raised("ZeroDivisionError", rows)
    ELSE HourlyResult(rows, GroupRows(rows, "CountyName", Len(rows)))

\* the loop "for station in stations"
HourlyRows(stations, sys) == [i \in 1..Len(stations) |-> BuildRow(stations[i], sys)]

\* hourly parse_weather_data(data)
ParseHourlyData(d, sys) ==
    IF ~d.has_records \/ ~d.has_Station THEN Raised("ValueError", <<>>)
    ELSE HourlyOutcome(HourlyRows(d.Station, sys))

-----------------------------------------------------------------------------
(* weekly parse_weather_data *)

\* ASCII stand-ins for the literals of src/weekly_auto_send.py
UnknownLocation == "<unknown location>"
DegreeSuffix == " C"
NameMaxT == "name:MaxTemperature"
NameMinT == "name:MinTemperature"
NameWeather == "name:Weather"
NameWeatherCode == "name:WeatherCode"

TIME_BASE_KEY == NameWeather

RECURSIVE Strip(_, _)
\* python: s.replace(c, '') for each character c of drop
Strip(s, drop) ==
    IF Len(s) = 0 THEN ""
    ELSE (IF Contains(drop, CharAt(s, 1)) THEN "" ELSE CharAt(s, 1))
         \o Strip(SubSeq(s, 2, Len(s)), drop)

\* python: s.isdigit() on an ASCII string
IsDigitStr(s) == Len(s) > 0 /\ AllDigits(s)

CountChar(s, c) == Cardinality({i \in 1..Len(s) : CharAt(s, i) = c})

\* python: float(s) succeeds, for s made of digits, '.' and '-' with a digit
FloatOK(s) ==
    LET body == IF CharAt(s, 1) = "-" THEN SubSeq(s, 2, Len(s)) ELSE s
    IN  /\ ~Contains(body, "-")
        /\ CountChar(body, ".") <= 1
        /\ IsDigitStr(Strip(body, "."))

RECURSIVE Normal(_, _)
\* the decimal m / 10^e without trailing zeros in its fraction
Normal(m, e) == IF m = 0 THEN [m |-> 0, e |-> 0]
                ELSE IF e > 0 /\ m % 10 = 0 THEN Normal(m \div 10, e - 1)
                ELSE [m |-> m, e |-> e]

Zero == [m |-> 0, e |-> 0]

\* python: float(s) where FloatOK(s), as the decimal m / 10^e
FloatOf(s) ==
    LET neg  == CharAt(s, 1) = "-"
        body == IF neg THEN SubSeq(s, 2, Len(s)) ELSE s
        dot  == Find(body, ".")
        frac == IF dot < 0 THEN 0 ELSE Len(body) - dot - 1
        mag  == ToInt(Strip(body, "."))
    IN  Normal(IF neg THEN 0 - mag ELSE mag, frac)

\* float(val) if val and val.replace('.','').replace('-','').isdigit() else 0
\* error names the exception where the expression raises
TempNumber(val) ==
    IF ~Truthy(val) THEN [error |-> "", num |-> Zero]
    ELSE IF val.k # "str" THEN [error |-> "AttributeError", num |-> Zero]
    ELSE IF ~IsDigitStr(Strip(val.v, ".-")) THEN [error |-> "", num |-> Zero]
    ELSE IF ~FloatOK(val.v) THEN [error |-> "ValueError", num |-> Zero]
    ELSE [error |-> "", num |-> FloatOf(val.v)]

\* f"{val} C" if val else ""
TempText(val) == IF Truthy(val) THEN val.v \o DegreeSuffix ELSE ""

\* t.get("StartTime") or t.get("startTime")
StartOf(t) == IF Truthy(t.StartTime) THEN t.StartTime ELSE t.startTime

\* elements.get(name) of {e["ElementName"]: e for e in ...}: the last such e
ElemIndex(elems, name) ==
    LET at == {i \in 1..Len(elems) : elems[i].ElementName = Str(name)}
    IN  IF at = {} THEN 0 ELSE CHOOSE i \in at : \A j \in at : j <= i

\* next((x for x in elem.get("Time", []) if start(x) == start_raw), None)
MatchIndex(times, start_raw) ==
    LET at == {i \in 1..Len(times) : StartOf(times[i]) = start_raw}
    IN  IF at = {} THEN 0 ELSE CHOOSE i \in at : \A j \in at : i <= j

\* val after the isinstance(list) / isinstance(dict) unwrapping, for key
ElementVal(ev) ==
    CASE ev.shape = "absent"     -> Absent
      [] ev.shape = "empty_list" -> Str("")
      [] ev.shape \in {"list", "dict"} -> GetOrEmpty(ev.v)
      [] OTHER                   -> ev.v

NotFound == [found |-> FALSE, val |-> Absent]

\* python truth value of a time entry: a dict with no key at all is false
HasKeys(x) ==
    x.StartTime.k # "absent" \/ x.startTime.k # "absent" \/ x.ElementValue.shape # "absent"

\* matched.get("ElementValue") unwrapped, m the matching entry of times (or 0);
\* "if not matched: continue" also skips a matching entry that is empty
Matched(times, m) ==
    IF m = 0 THEN NotFound
    ELSE IF ~HasKeys(times[m]) THEN NotFound
    ELSE [found |-> TRUE, val |-> ElementVal(times[m].ElementValue)]

\* the same for the element at index e of elems (or 0)
LookupAt(elems, e, start_raw) ==
    IF e = 0 THEN NotFound
    ELSE Matched(elems[e].Time, MatchIndex(elems[e].Time, start_raw))

\* the matched value of element name at start_raw: found is FALSE where the
\* loop body hits "continue"
Lookup(elems, name, start_raw) == LookupAt(elems, ElemIndex(elems, name), start_raw)

\* the numeric field of a looked-up temperature
TempOf(x) == IF x.found THEN TempNumber(x.val) ELSE [error |-> "", num |-> Zero]

ForecastRow(location_name, start, maxT, minT, wx, code, maxN, minN) ==
    [error |-> IF maxN.error # "" THEN maxN.error ELSE minN.error,
     row   |-> [Location    |-> location_name,
                Time        |-> start,
                Weather     |-> IF wx.found THEN wx.val ELSE Str(""),
                WeatherCode |-> IF code.found THEN code.val ELSE Str(""),
                MaxT        |-> IF maxT.found THEN TempText(maxT.val) ELSE "",
                MinT        |-> IF minT.found THEN TempText(minT.val) ELSE "",
                MaxTNum     |-> maxN.num,
                MinTNum     |-> minN.num]]

\* the loop over ELEMENT_MAP for the slot starting at start_raw
RowAt(location_name, elems, start_raw, start) ==
    ForecastRow(location_name, start,
                Lookup(elems, NameMaxT, start_raw), Lookup(elems, NameMinT, start_raw),
                Lookup(elems, NameWeather, start_raw),
                Lookup(elems, NameWeatherCode, start_raw),
                TempOf(Lookup(elems, NameMaxT, start_raw)),
                TempOf(Lookup(elems, NameMinT, start_raw)))

\* the row of one time slot t of a location (the body of "for t in ...")
BuildForecastRow(location_name, elems, t, sys) ==
    RowAt(location_name, elems, StartOf(t), ConvertWeekly(StartOf(t).v, sys).res)

\* the index of the first failing entry of a sequence of [error, ...], or 0
FirstError(results) ==
    LET at == {i \in 1..Len(results) : results[i].error # ""}
    IN  IF at = {} THEN 0 ELSE CHOOSE i \in at : \A j \in at : i <= j

\* the rows built before the entry f that raised (f = 0: all of them)
CutAt(built, f) ==
    [error |-> IF f = 0 THEN "" ELSE built[f].error,
     rows  |-> [i \in 1..(IF f = 0 THEN Len(built) ELSE f - 1) |-> built[i].row]]

\* the loop "for t in time_base["Time"]"
SlotRows(location_name, elems, slots, sys) ==
    [i \in 1..Len(slots) |-> BuildForecastRow(location_name, elems, slots[i], sys)]

\* time_base["Time"], tb the index of the time base element (or 0)
SlotsAt(elems, tb) == IF tb = 0 THEN <<>> ELSE elems[tb].Time

\* loc.get("LocationName", <unknown location>)
location_name_of(loc) ==
    IF loc.LocationName.k = "absent" THEN UnknownLocation ELSE loc.LocationName.v

Cut(built) == CutAt(built, FirstError(built))

\* the rows one location adds (the body of "for loc in locations")
LocationRows(loc, sys) ==
    IF \E i \in 1..Len(loc.WeatherElement) : loc.WeatherElement[i].ElementName.k = "absent"
    THEN [error |-> "KeyError", rows |-> <<>>]
    ELSE Cut(SlotRows(location_name_of(loc), loc.WeatherElement,
                      SlotsAt(loc.WeatherElement,
                              ElemIndex(loc.WeatherElement, TIME_BASE_KEY)),
                      sys))

RECURSIVE Flatten(_, _)
\* the rows of the first n entries, in order
Flatten(parts, n) == IF n = 0 THEN <<>> ELSE Flatten(parts, n - 1) \o parts[n].rows

\* the sorted groups and the identifiers of the grouped rows
WeeklyResult(rows, groups) ==
    Returned(rows,
             [c \in DOMAIN groups |-> SortAsc(groups[c])],
             [c \in DOMAIN groups |-> safe_id("chart-", c)])

WeeklyGrouped(rows) == WeeklyResult(rows, GroupRows(rows, "Location", Len(rows)))

\* the outcome, f the first location whose rows raised (or 0)
WeeklyOutcomeAt(parts, f) ==
    IF f # 0 THEN Raised(parts[f].error, Flatten(parts, f))
    ELSE WeeklyGrouped(Flatten(parts, Len(parts)))

\* the loop "for loc in locations"
WeeklyParts(locs, sys) == [i \in 1..Len(locs) |-> LocationRows(locs[i], sys)]

WeeklyOutcome(parts) == WeeklyOutcomeAt(parts, FirstError(parts))

\* a parser that reads a missing container as an empty location list
ParseWeeklyDataLenient(d, sys) ==
    IF ~d.has_records \/ ~d.has_Locations \/ d.n_Locations = 0 \/ ~d.has_Location
    THEN Returned(<<>>, EmptyMap, EmptyMap)
    ELSE WeeklyOutcome(WeeklyParts(d.Location, sys))

\* weekly parse_weather_data(data)
ParseWeeklyData(d, sys) ==
    IF ~d.has_records \/ ~d.has_Locations THEN Raised("KeyError", <<>>)
    ELSE IF d.n_Locations = 0 THEN Raised("IndexError", <<>>)
    ELSE IF ~d.has_Location THEN Raised("KeyError", <<>>)
    ELSE WeeklyOutcome(WeeklyParts(d.Location, sys))

-----------------------------------------------------------------------------
(* Inputs of the time normalizer *)

MaxCalls == 2

\* well-formed and ill-formed timestamps: date, hour, minute, zone
Stamps ==
    {d \o "T" \o h \o ":" \o m \o ":00" \o z :
        d \in {"2024-01-01", "2024-01-31", "2023-12-31", "2024-02-28",
               "2024-02-29", "2023-02-29", "2024-13-01"},
        h \in {"00", "03", "15", "16", "23", "24"},
        m \in {"00", "30"},
        z \in {"", "Z", "+08:00", "+00:00", "-05:00"}}

OddTimes == {"", "03:00", "2024-01-01", "01/01 11:00", "2024-01-01 03:00",
             "2024-02-30", "badT03:00:00", "T", "xT", "T1", "xTabTcd",
             "2024-01-01T03:00", "2024-01-01T03", "2024-01-01T3:00",
             "2024-01-01T03:00:00+8", "2024-01-01Z", "now"}

LocalOffsets == {0, TW_TIMEZONE}

NoData == [kind |-> "none"]

NotParsed == [status |-> "none"]

\* main() is not part of the run
MainNotStarted ==
    /\ pc = "off"
    /\ creds = <<>>
    /\ events = <<>>
    /\ disk = {}
    /\ status = "running"
    /\ caught = [stage |-> "", what |-> ""]

InitTime ==
    /\ variant \in {"hourly", "weekly"}
    /\ localOffset \in LocalOffsets
    /\ timeArg \in Stamps \cup OddTimes
    /\ timeCalls = <<>>
    /\ data = NoData
    /\ parsed = NotParsed
    /\ MainNotStarted

\* one call of the hourly convert_to_local_time; the result is kept as the
\* next argument
CallConvertHourly ==
    /\ variant = "hourly"
    /\ data = NoData
    /\ Len(timeCalls) < MaxCalls
    /\ LET r == ConvertHourly(timeArg, localOffset)
       IN  /\ timeCalls' = Append(timeCalls,
                                  [arg |-> timeArg, res |-> r.res, path |-> r.path])
           /\ timeArg' = r.res
    /\ UNCHANGED <<variant, localOffset, data, parsed>>
    /\ UNCHANGED <<pc, creds, events, disk, status, caught>>

\* one call of the weekly convert_to_local_time
CallConvertWeekly ==
    /\ variant = "weekly"
    /\ data = NoData
    /\ Len(timeCalls) < MaxCalls
    /\ LET r == ConvertWeekly(timeArg, localOffset)
       IN  /\ timeCalls' = Append(timeCalls,
                                  [arg |-> timeArg, res |-> r.res, path |-> r.path])
           /\ timeArg' = r.res
    /\ UNCHANGED <<variant, localOffset, data, parsed>>
    /\ UNCHANGED <<pc, creds, events, disk, status, caught>>

-----------------------------------------------------------------------------
(* Inputs of the observation parser *)

MaxStations == 3

\* what one weather element may hold
BasicValues ==
    {Absent, DictEmpty}
    \cup {Str(x) : x \in SENTINELS \cup {"-98", "T", "0", "21.5"}}
    \cup {Num(x) : x \in {"-99", "-99.0", "-999", "-98", "0", "0.0", "21.5"}}
    \cup {DictStr(x) : x \in {"-99", "NA", "", "21.5"}}
    \cup {DictNum(x) : x \in {"-99", "21.5"}}

\* what one path of a fallback chain may hold; good tells the paths apart
ChainValues(good) ==
    {Absent, Str(""), Str("-99"), Str("-98"), Str("T"), Str(good),
     Num("-99"), Num("0"), DictStr("T"), DictStr(good)}

\* the GustInfo / Now member: missing, not an object, or an object
NestedValues(good) ==
    {NoSub, [k |-> "str", v |-> Absent]}
    \cup {[k |-> "dict", v |-> x] :
             x \in {Absent, Str(""), Str("-99"), Str("-98"), Str("T"), Str(good),
                    Num("-99.0"), Num("0.0"), Num("1.5")}}

NoGeo == [k |-> "absent", CountyName |-> Absent]

Geo(c) == [k |-> "dict", CountyName |-> c]

NoObs == [k |-> "absent", DateTime |-> Absent]

Obs(dt) == [k |-> "dict", DateTime |-> dt]

\* ObsTime given as a bare string instead of an object
BareObs == [k |-> "str", DateTime |-> Absent]

NoWE == [k |-> "absent", e |-> NoElements, GustInfo |-> NoSub, Now |-> NoSub]

WE(e, gi, now) == [k |-> "dict", e |-> e, GustInfo |-> gi, Now |-> now]

Station(name, geo, obs, we) ==
    [StationName |-> name, GeoInfo |-> geo, ObsTime |-> obs, WeatherElement |-> we]

T1 == "2024-01-01T03:00:00+08:00"

Plain(we) == Station(Str("S"), Geo(Str("A")), Obs(Str(T1)), we)

\* stations whose plain weather elements vary
BasicStations ==
    {Plain(WE([key \in ElementKeys |->
                  IF key \in {"AirPressure", "WindDirection", "RelativeHumidity"} THEN a
                  ELSE IF key \in {"AirTemperature", "WindSpeed", "Weather"} THEN b
                  ELSE Absent], NoSub, NoSub)) :
        a \in BasicValues, b \in BasicValues}

\* stations whose gust paths vary
GustStations ==
    {Plain(WE([NoElements EXCEPT !.Gust = g2, !.GUST = g3], gi, NoSub)) :
        gi \in NestedValues("1.0"), g2 \in ChainValues("2.0"), g3 \in ChainValues("3.0")}

\* stations whose precipitation paths vary
RainStations ==
    {Plain(WE([NoElements EXCEPT !.Precipitation = r2, !.Rainfall = r3, !.RAIN = r4],
              NoSub, now)) :
        now \in NestedValues("1.0"), r2 \in ChainValues("2.0"),
        r3 \in ChainValues("3.0"), r4 \in ChainValues("4.0")}

\* stations with any subset of the weather elements (and GustInfo, Now) present
SubsetStations ==
    {Plain(WE([key \in ElementKeys |-> IF key \in P THEN Str("7") ELSE Absent],
              IF "GustInfo" \in P THEN [k |-> "dict", v |-> Str("8")] ELSE NoSub,
              IF "Now" \in P THEN [k |-> "dict", v |-> Str("9")] ELSE NoSub)) :
        P \in SUBSET (ElementKeys \cup {"GustInfo", "Now"})}

\* stations with any subset of the top-level parts present
PartStations ==
    {Station(name, geo, obs, we) :
        name \in {Absent, Str("S")},
        geo \in {NoGeo, Geo(Absent), Geo(Str("A"))},
        obs \in {NoObs, BareObs, Obs(Absent), Obs(Str(T1))},
        we \in {NoWE, WE(NoElements, NoSub, NoSub),
               WE([key \in ElementKeys |-> Str("7")],
                  [k |-> "dict", v |-> Str("8")], [k |-> "dict", v |-> Str("9")])}}

\* stations of several regions and observation times
GroupStations ==
    {Station(Str("S"), geo, obs, WE([NoElements EXCEPT !.AirTemperature = Str("21.5")],
                                    NoSub, NoSub)) :
        geo \in {NoGeo, Geo(Str("A")), Geo(Str("B"))},
        obs \in {NoObs, Obs(Str(T1)), Obs(Str("2024-01-31T20:00:00Z")), Obs(Str("03:00"))}}

RECURSIVE SeqsUpTo(_, _)
\* the sequences over S of length at most n
SeqsUpTo(S, n) ==
    IF n = 0 THEN {<<>>}
    ELSE LET shorter == SeqsUpTo(S, n - 1)
         IN  shorter \cup {Append(q, x) : q \in shorter, x \in S}

HourlyEnvelope(stations) ==
    [kind |-> "hourly", has_records |-> TRUE, has_Station |-> TRUE, Station |-> stations]

BrokenHourlyEnvelopes ==
    {[kind |-> "hourly", has_records |-> r, has_Station |-> FALSE, Station |-> <<>>] :
        r \in BOOLEAN}

-----------------------------------------------------------------------------
(* Inputs of the forecast parser *)

MaxLocs == 2

MaxValLen == 3

RECURSIVE StringsUpTo(_)
\* the strings of digits, '.', '-' and a letter of length at most n
StringsUpTo(n) ==
    IF n = 0 THEN {""}
    ELSE LET shorter == StringsUpTo(n - 1)
         IN  shorter \cup {q \o c : q \in shorter, c \in {"1", "5", ".", "-", "a"}}

S1 == "2024-01-01T18:00:00+08:00"

S2 == "2024-01-01T06:00:00+08:00"

S3 == "2024-01-02T06:00:00+08:00"

EV(shape, v) == [shape |-> shape, v |-> v]

Slot(start, ev) == [StartTime |-> start, startTime |-> Absent, ElementValue |-> ev]

\* a slot that spells its key "startTime"
LowerSlot(start, ev) == [StartTime |-> Absent, startTime |-> start, ElementValue |-> ev]

Elem(name, times) == [ElementName |-> Str(name), Time |-> times]

Loc(name, elems) == [LocationName |-> name, WeatherElement |-> elems]

SunnySlot(start) == Slot(Str(start), EV("list", Str("sunny")))

\* the shapes an ElementValue takes
TempEVs ==
    {EV("list", Str(x)) : x \in StringsUpTo(MaxValLen)}
    \cup {EV(sh, v) : sh \in {"list", "dict", "scalar"},
                      v \in {Absent, Str(""), Str("25"), Num("25"), Num("0")}}
    \cup {EV("absent", Absent), EV("empty_list", Absent)}

\* one location, one slot, the temperature values vary
ValueLocs ==
    {Loc(Str("A"), <<Elem(NameWeather, <<SunnySlot(S1)>>),
                     Elem(NameMaxT, <<Slot(Str(S1), ev)>>),
                     Elem(NameMinT, <<Slot(Str(S1), EV("list", Str("-1.5")))>>)>>) :
        ev \in TempEVs}
    \cup
    {Loc(Str("A"), <<Elem(NameWeather, <<SunnySlot(S1)>>),
                     Elem(NameMaxT, <<Slot(Str(S1), EV("list", Str("25")))>>),
                     Elem(NameMinT, <<Slot(Str(S1), ev)>>)>>) :
        ev \in TempEVs}

SlotLists ==
    {<<>>, <<SunnySlot(S1)>>, <<SunnySlot(S1), SunnySlot(S2)>>,
     <<SunnySlot(S2), SunnySlot(S3), SunnySlot(S1)>>,
     <<Slot(Str("06:00"), EV("list", Str("rain"))), SunnySlot(S2)>>,
     <<LowerSlot(Str(S3), EV("dict", Str("fog"))), Slot(Absent, EV("absent", Absent))>>}

\* one location whose elements match the time base, or do not
MatchLocs ==
    {Loc(Str("A"), <<Elem(NameWeather, base)>> \o others) :
        base \in SlotLists,
        others \in {<<>>,
                    <<Elem(NameMaxT, <<Slot(Str(S2), EV("list", Str("25")))>>)>>,
                    <<Elem(NameMaxT, <<Slot(Str(S3), EV("list", Str("15"))),
                                       Slot(Str(S1), EV("list", Str("25"))),
                                       Slot(Str(S1), EV("list", Str("11")))>>),
                      Elem(NameWeatherCode, <<Slot(Str(S1), EV("list", Str("01")))>>)>>,
                    <<Elem(NameMinT, <<LowerSlot(Str(S3), EV("dict", Num("5")))>>)>>,
                    <<[ElementName |-> Absent, Time |-> <<>>]>>,
                    <<Elem(NameWeather, <<>>)>>}}
    \cup {Loc(Str("A"), <<>>),
          Loc(Str("A"), <<Elem(NameMaxT, <<Slot(Str(S1), EV("list", Str("25")))>>)>>)}

\* locations of several names and time series
GroupLocs ==
    {Loc(name, <<Elem(NameWeather, base)>>) :
        name \in {Absent, Str("A"), Str("B")}, base \in SlotLists}

WeeklyEnvelope(locs) ==
    [kind |-> "weekly", has_records |-> TRUE, has_Locations |-> TRUE,
     n_Locations |-> 1, has_Location |-> TRUE, Location |-> locs]

BrokenWeeklyEnvelopes ==
    {[kind |-> "weekly", has_records |-> r, has_Locations |-> l,
      n_Locations |-> n, has_Location |-> FALSE, Location |-> <<>>] :
        r \in BOOLEAN, l \in BOOLEAN, n \in {0, 1}}

-----------------------------------------------------------------------------
(* The parsers as a state machine *)

InitHourly ==
    /\ variant = "hourly"
    /\ localOffset \in LocalOffsets
    /\ timeArg = ""
    /\ timeCalls = <<>>
    /\ \/ data \in BrokenHourlyEnvelopes
       \/ \E st \in BasicStations : data = HourlyEnvelope(<<st>>)
       \/ \E st \in GustStations : data = HourlyEnvelope(<<st>>)
       \/ \E st \in RainStations : data = HourlyEnvelope(<<st>>)
       \/ \E st \in SubsetStations : data = HourlyEnvelope(<<st>>)
       \/ \E st \in PartStations : data = HourlyEnvelope(<<st>>)
       \/ \E q \in SeqsUpTo(GroupStations, MaxStations) : data = HourlyEnvelope(q)
    /\ parsed = NotParsed
    /\ MainNotStarted

InitWeekly ==
    /\ variant = "weekly"
    /\ localOffset \in LocalOffsets
    /\ timeArg = ""
    /\ timeCalls = <<>>
    /\ \/ data \in BrokenWeeklyEnvelopes
       \/ \E loc \in ValueLocs : data = WeeklyEnvelope(<<loc>>)
       \/ \E loc \in MatchLocs : data = WeeklyEnvelope(<<loc>>)
       \/ \E q \in SeqsUpTo(GroupLocs, MaxLocs) : data = WeeklyEnvelope(q)
    /\ parsed = NotParsed
    /\ MainNotStarted

Init == InitHourly \/ InitWeekly

\* hourly: grouped_data, id_map = parse_weather_data(data)
ParseHourly ==
    /\ variant = "hourly"
    /\ data # NoData
    /\ parsed = NotParsed
    /\ parsed' = ParseHourlyData(data, localOffset)
    /\ UNCHANGED <<variant, localOffset, timeArg, timeCalls, data>>
    /\ UNCHANGED <<pc, creds, events, disk, status, caught>>

\* weekly: grouped_data, id_map = parse_weather_data(data)
ParseWeekly ==
    /\ variant = "weekly"
    /\ data # NoData
    /\ parsed = NotParsed
    /\ parsed' = ParseWeeklyData(data, localOffset)
    /\ UNCHANGED <<variant, localOffset, timeArg, timeCalls, data>>
    /\ UNCHANGED <<pc, creds, events, disk, status, caught>>

Next == ParseHourly \/ ParseWeekly

Spec == Init /\ [][Next]_vars

NextTime == CallConvertHourly \/ CallConvertWeekly

SpecTime == InitTime /\ [][NextTime]_vars

-----------------------------------------------------------------------------
(* The main pipelines: load credentials, fetch, parse, render, deliver *)

\* a credential file is "missing", "empty", "blank" (white space only) or "ok"

\* a loader that does not look at what the files hold
load_api_keys_unchecked(c) ==
    IF \E f \in DOMAIN c : c[f] = "missing" THEN "FileNotFoundError" ELSE ""

\* hourly load_api_keys(): the exception it raises, "" when it returns.
\* All three files must exist before any of them is read.
load_api_keys(c) ==
    IF \E f \in DOMAIN c : c[f] = "missing" THEN "FileNotFoundError"
    ELSE IF \E f \in DOMAIN c : c[f] \in {"empty", "blank"} THEN "ValueError"
    ELSE ""

\* weekly load_config(): read_file checks one file after the other
load_config(c) ==
    LET order == <<"API-KEY.txt", "TELEGRAM-TOKEN.txt", "CHAT-ID.txt">>
        bad   == {i \in 1..3 : c[order[i]] # "ok"}
        first == CHOOSE i \in bad : \A j \in bad : i <= j
    IN  IF bad = {} THEN ""
        ELSE IF c[order[first]] = "missing" THEN "FileNotFoundError"
        ELSE "ValueError"

InitMain ==
    /\ variant \in {"hourly", "weekly"}
    /\ localOffset \in LocalOffsets
    /\ timeArg = ""
    /\ timeCalls = <<>>
    /\ data = NoData
    /\ parsed = NotParsed
    /\ pc = "load"
    /\ creds \in [{"API-KEY.txt", "TELEGRAM-TOKEN.txt", "CHAT-ID.txt"}
                     -> {"missing", "empty", "blank", "ok"}]
    /\ events = <<>>
    /\ disk = {}
    /\ status = "running"
    /\ caught = [stage |-> "", what |-> ""]

\* hourly main: cwa_key, telegram_token, chat_id = load_api_keys()
HourlyLoadKeys ==
    /\ variant = "hourly"
    /\ pc = "load"
    /\ IF load_api_keys(creds) = ""
       THEN /\ pc' = "fetch"
            /\ events' = Append(events, "loaded")
            /\ caught' = caught
       ELSE /\ pc' = "except"
            /\ events' = events
            /\ caught' = [stage |-> "config", what |-> load_api_keys(creds)]
    /\ UNCHANGED <<variant, localOffset, timeArg, timeCalls, data, parsed,
                   creds, disk, status>>

\* hourly main: data = fetch_weather_data(cwa_key); the GET fails, answers
\* with an error status, with no JSON or without success, or gives an envelope
HourlyFetch ==
    /\ variant = "hourly"
    /\ pc = "fetch"
    /\ events' = Append(events, "GET")
    /\ \/ \E e \in {"RequestException", "HTTPError", "JSONDecodeError", "API error"} :
              /\ pc' = "except"
              /\ caught' = [stage |-> "fetch", what |-> e]
              /\ data' = data
       \/ /\ data' \in BrokenHourlyEnvelopes
          /\ pc' = "debug"
          /\ caught' = caught
       \/ \E q \in SeqsUpTo(PartStations, 1) :
              /\ data' = HourlyEnvelope(q)
              /\ pc' = "debug"
              /\ caught' = caught
    /\ UNCHANGED <<variant, localOffset, timeArg, timeCalls, parsed,
                   creds, disk, status>>

\* hourly main: the raw JSON is saved to a debug file, which is kept
HourlySaveDebug ==
    /\ variant = "hourly"
    /\ pc = "debug"
    /\ \/ /\ disk' = disk \cup {"debug"}
          /\ pc' = "parse"
          /\ caught' = caught
       \/ /\ disk' = disk
          /\ pc' = "except"
          /\ caught' = [stage |-> "debug", what |-> "OSError"]
    /\ UNCHANGED <<variant, localOffset, timeArg, timeCalls, data, parsed,
                   creds, events, status>>

\* hourly main: grouped_data, id_map = parse_weather_data(data)
HourlyParse ==
    /\ variant = "hourly"
    /\ pc = "parse"
    /\ parsed' = ParseHourlyData(data, localOffset)
    /\ IF parsed'.status = "raised"
       THEN /\ pc' = "except"
            /\ caught' = [stage |-> "parse", what |-> parsed'.error]
       ELSE /\ pc' = "render"
            /\ caught' = caught
    /\ UNCHANGED <<variant, localOffset, timeArg, timeCalls, data,
                   creds, events, disk, status>>

\* hourly main: html_content = generate_html(grouped_data, id_map)
HourlyRender ==
    /\ variant = "hourly"
    /\ pc = "render"
    /\ pc' = "write"
    /\ UNCHANGED <<variant, localOffset, timeArg, timeCalls, data, parsed,
                   creds, events, disk, status, caught>>

\* hourly main: the report is written to realtime_weather_<timestamp>.html
HourlyWrite ==
    /\ variant = "hourly"
    /\ pc = "write"
    /\ \/ /\ disk' = disk \cup {"report"}
          /\ pc' = "send"
          /\ caught' = caught
       \/ /\ disk' = disk
          /\ pc' = "except"
          /\ caught' = [stage |-> "write", what |-> "OSError"]
    /\ UNCHANGED <<variant, localOffset, timeArg, timeCalls, data, parsed,
                   creds, events, status>>

\* hourly main: bot.send_document(...), then os.remove(filename) and return;
\* an exception of the upload leaves the try block before os.remove
HourlySend ==
    /\ variant = "hourly"
    /\ pc = "send"
    /\ \/ \E e \in {"NetworkError", "TimedOut", "BadRequest"} :
              /\ events' = Append(events, "POST")
              /\ disk' = disk
              /\ pc' = "except"
              /\ caught' = [stage |-> "delivery", what |-> e]
              /\ status' = status
       \/ /\ events' = events \o <<"POST", "delivered">>
          /\ disk' = disk \ {"report"}
          /\ pc' = "done"
          /\ caught' = caught
          /\ status' = "exit 0"
    /\ UNCHANGED <<variant, localOffset, timeArg, timeCalls, data, parsed, creds>>

\* hourly main: except Exception: logger.error(...); sys.exit(1)
HourlyExcept ==
    /\ variant = "hourly"
    /\ pc = "except"
    /\ pc' = "done"
    /\ status' = "exit 1"
    /\ UNCHANGED <<variant, localOffset, timeArg, timeCalls, data, parsed,
                   creds, events, disk, caught>>

\* weekly main: cwa_key, bot_token, chat_id = load_config()
WeeklyLoadConfig ==
    /\ variant = "weekly"
    /\ pc = "load"
    /\ IF load_config(creds) = ""
       THEN /\ pc' = "fetch"
            /\ events' = Append(events, "loaded")
            /\ caught' = caught
       ELSE /\ pc' = "except"
            /\ events' = events
            /\ caught' = [stage |-> "config", what |-> load_config(creds)]
    /\ UNCHANGED <<variant, localOffset, timeArg, timeCalls, data, parsed,
                   creds, disk, status>>

\* weekly main: data = fetch_weather_data(cwa_key)
WeeklyFetch ==
    /\ variant = "weekly"
    /\ pc = "fetch"
    /\ events' = Append(events, "GET")
    /\ \/ \E e \in {"RequestException", "HTTPError", "JSONDecodeError", "API error"} :
              /\ pc' = "except"
              /\ caught' = [stage |-> "fetch", what |-> e]
              /\ data' = data
       \/ /\ data' \in BrokenWeeklyEnvelopes
          /\ pc' = "parse"
          /\ caught' = caught
       \/ \E q \in SeqsUpTo(MatchLocs, 1) :
              /\ data' = WeeklyEnvelope(q)
              /\ pc' = "parse"
              /\ caught' = caught
    /\ UNCHANGED <<variant, localOffset, timeArg, timeCalls, parsed,
                   creds, disk, status>>

\* weekly main: grouped_data, id_map = parse_weather_data(data)
WeeklyParse ==
    /\ variant = "weekly"
    /\ pc = "parse"
    /\ parsed' = ParseWeeklyData(data, localOffset)
    /\ IF parsed'.status = "raised"
       THEN /\ pc' = "except"
            /\ caught' = [stage |-> "parse", what |-> parsed'.error]
       ELSE /\ pc' = "render"
            /\ caught' = caught
    /\ UNCHANGED <<variant, localOffset, timeArg, timeCalls, data,
                   creds, events, disk, status>>

\* weekly main: html = generate_html(grouped_data, id_map)
WeeklyRender ==
    /\ variant = "weekly"
    /\ pc = "render"
    /\ pc' = "send"
    /\ UNCHANGED <<variant, localOffset, timeArg, timeCalls, data, parsed,
                   creds, events, disk, status, caught>>

\* weekly main: send_to_telegram(bot_token, chat_id, html) and the return of
\* main. The report file is written, posted, removed, and only then is the
\* status code looked at; an exception of requests.post skips the removal.
WeeklySend ==
    /\ variant = "weekly"
    /\ pc = "send"
    /\ \/ /\ events' = events
          /\ disk' = disk
          /\ pc' = "except"
          /\ caught' = [stage |-> "write", what |-> "OSError"]
          /\ status' = status
       \/ \E e \in {"Timeout", "ConnectionError"} :
              /\ events' = Append(events, "POST")
              /\ disk' = disk \cup {"report"}
              /\ pc' = "except"
              /\ caught' = [stage |-> "delivery", what |-> e]
              /\ status' = status
       \/ /\ events' = Append(events, "POST")
          /\ disk' = disk \ {"report"}
          /\ pc' = "except"
          /\ caught' = [stage |-> "delivery", what |-> "status code is not 200"]
          /\ status' = status
       \/ /\ events' = events \o <<"POST", "delivered">>
          /\ disk' = disk \ {"report"}
          /\ pc' = "done"
          /\ caught' = caught
          /\ status' = "exit 0"
    /\ UNCHANGED <<variant, localOffset, timeArg, timeCalls, data, parsed, creds>>

\* weekly main: except Exception: logger.error(...); print(...), after which
\* main returns and the interpreter exits with status 0
WeeklyExcept ==
    /\ variant = "weekly"
    /\ pc = "except"
    /\ pc' = "done"
    /\ status' = "exit 0"
    /\ UNCHANGED <<variant, localOffset, timeArg, timeCalls, data, parsed,
                   creds, events, disk, caught>>

NextMain ==
    \/ HourlyLoadKeys \/ HourlyFetch \/ HourlySaveDebug \/ HourlyParse
    \/ HourlyRender \/ HourlyWrite \/ HourlySend \/ HourlyExcept
    \/ WeeklyLoadConfig \/ WeeklyFetch \/ WeeklyParse \/ WeeklyRender
    \/ WeeklySend \/ WeeklyExcept

SpecMain == InitMain /\ [][NextMain]_vars

-----------------------------------------------------------------------------
(* Properties of the parsers (checked under Spec) *)

Done == parsed.status # "none"

HourlyReturned == variant = "hourly" /\ parsed.status = "returned"

RowFields == {"AirPressure", "AirTemperature", "WindDirection", "WindSpeed",
              "Gust", "RelativeHumidity", "Weather"}

Markers == {"-99", "-99.0", "-999", "NA", "X"}

\* C1: no field of a row produced by the hourly parse_weather_data holds a
\* sentinel marker (-99, -99.0, -999, NA, X), and Rainfall never holds -98
\* either, however the raw value was spelled and whichever path supplied it.
C1_NoSentinelInRow ==
    HourlyReturned =>
        \A i \in 1..Len(parsed.rows) :
            /\ \A f \in RowFields : parsed.rows[i][f] \notin Markers
            /\ parsed.rows[i].Rainfall \notin Markers \cup {"-98"}

\* the raw value of a flat element, one level of {"value": ...} removed
Unwrapped(val) ==
    CASE val.k = "dict_str" -> Str(val.v)
      [] val.k = "dict_num" -> Num(val.v)
      [] val.k = "dict"     -> Str("")
      [] OTHER              -> val

\* a raw value that is missing or spells one of the sentinels
IsSentinel(val, sentinels) == val.k = "absent" \/ val.v \in sentinels

\* the first value of paths that is no sentinel (Absent when there is none)
FirstNonSentinel(paths, sentinels) ==
    LET at == {i \in 1..Len(paths) : ~IsSentinel(paths[i], sentinels)}
    IN  IF at = {} THEN Absent ELSE paths[CHOOSE i \in at : \A j \in at : i <= j]

NestedValue(sub) == IF sub.k = "dict" THEN sub.v ELSE Absent

GustPaths(st) ==
    <<NestedValue(GustInfo(st)), Unwrapped(Elements(st).Gust),
      Unwrapped(Elements(st).GUST)>>

RainPaths(st) ==
    <<NestedValue(Now(st)), Unwrapped(Elements(st).Precipitation),
      Unwrapped(Elements(st).Rainfall), Unwrapped(Elements(st).RAIN)>>

TraceOr(val) == IF val = Str("T") THEN TraceMarker ELSE val.v

\* C2: Gust is the first non-sentinel value among GustInfo.PeakGustSpeed,
\* Gust, GUST and Rainfall the first non-sentinel value among
\* Now.Precipitation, Precipitation, Rainfall, RAIN (the trace literal shown
\* as the trace marker); the empty string when every path is sentinel or absent.
C2_FirstNonSentinelWins ==
    HourlyReturned =>
        \A i \in 1..Len(parsed.rows) :
            /\ parsed.rows[i].Gust
                   = FirstNonSentinel(GustPaths(data.Station[i]), SENTINELS).v
            /\ parsed.rows[i].Rainfall
                   = TraceOr(FirstNonSentinel(RainPaths(data.Station[i]),
                                              PRECIP_SENTINELS))

\* C3: when the precipitation value that wins the fallback chain is the raw
\* literal "T", the row's Rainfall is the trace marker.
C3_TraceLiteralBecomesMarker ==
    HourlyReturned =>
        \A i \in 1..Len(parsed.rows) :
            FirstNonSentinel(RainPaths(data.Station[i]), PRECIP_SENTINELS) = Str("T")
                => parsed.rows[i].Rainfall = TraceMarker

KeyField == IF variant = "hourly" THEN "CountyName" ELSE "Location"

Count(q, x) == Cardinality({i \in 1..Len(q) : q[i] = x})

RECURSIVE SumSizes(_, _)
SumSizes(g, keys) ==
    IF keys = {} THEN 0
    ELSE LET c == CHOOSE c \in keys : TRUE
         IN  Len(g[c]) + SumSizes(g, keys \ {c})

\* C4: in both variants the groups partition the built rows: every group holds
\* only rows of its own region, every built row occurs in the group of its
\* region as often as it was built (none dropped, none duplicated), there is a
\* group for exactly the regions that occur, and the sizes add up.
C4_GroupsPartitionRows ==
    parsed.status = "returned" =>
        /\ DOMAIN parsed.grouped = {parsed.rows[i][KeyField] : i \in 1..Len(parsed.rows)}
        /\ \A c \in DOMAIN parsed.grouped :
               \A j \in 1..Len(parsed.grouped[c]) : parsed.grouped[c][j][KeyField] = c
        /\ \A i \in 1..Len(parsed.rows) :
               Count(parsed.grouped[parsed.rows[i][KeyField]], parsed.rows[i])
                   = Count(parsed.rows, parsed.rows[i])
        /\ SumSizes(parsed.grouped, DOMAIN parsed.grouped) = Len(parsed.rows)

\* two stations share a region and a third one lies elsewhere
C4_Witness ==
    /\ HourlyReturned
    /\ Len(parsed.rows) >= 3
    /\ Cardinality(DOMAIN parsed.grouped) >= 2
    /\ \E c \in DOMAIN parsed.grouped : Len(parsed.grouped[c]) >= 2

\* C5: the rows of every group are ordered by the display time string:
\* non-increasing in the hourly variant, non-decreasing in the weekly one.
C5_GroupsOrderedByTime ==
    parsed.status = "returned" =>
        \A c \in DOMAIN parsed.grouped :
            \A j \in 1..(Len(parsed.grouped[c]) - 1) :
                IF variant = "hourly"
                THEN ~StrLess(parsed.grouped[c][j].Time, parsed.grouped[c][j + 1].Time)
                ELSE ~StrLess(parsed.grouped[c][j + 1].Time, parsed.grouped[c][j].Time)

\* an hourly group whose stations arrived oldest first and so were reordered
C5_Witness ==
    /\ HourlyReturned
    /\ \E i \in 1..Len(parsed.rows), j \in 1..Len(parsed.rows) :
           /\ i < j
           /\ parsed.rows[i].CountyName = parsed.rows[j].CountyName
           /\ StrLess(parsed.rows[i].Time, parsed.rows[j].Time)

MissingContainer ==
    IF variant = "hourly" THEN ~data.has_records \/ ~data.has_Station
    ELSE ~data.has_records \/ ~data.has_Locations \/ data.n_Locations = 0
         \/ ~data.has_Location

\* C6: an envelope without its top-level container makes parse_weather_data
\* raise before any row is built, and no grouped data comes back.
C6_MissingContainerRaises ==
    (Done /\ MissingContainer) =>
        /\ parsed.status = "raised"
        /\ parsed.error # ""
        /\ parsed.rows = <<>>
        /\ parsed.grouped = EmptyMap
        /\ parsed.id_map = EmptyMap

\* the forecast envelope with an empty Locations list was parsed
C6_Witness ==
    /\ variant = "weekly"
    /\ Done
    /\ data.has_records /\ data.has_Locations /\ data.n_Locations = 0

\* the fields of row that must be empty because st lacks their source
\* (no_time is what the display time must be without a timestamp)
Degrades(st, row, no_time) ==
    /\ st.StationName.k = "absent" => row.StationName = ""
    /\ (st.GeoInfo.k = "absent" \/ st.GeoInfo.CountyName.k = "absent")
           => row.CountyName = UnknownCounty
    /\ (st.ObsTime.k = "absent"
           \/ (st.ObsTime.k = "dict" /\ st.ObsTime.DateTime.k = "absent"))
           => (row.DateTime = "" /\ row.Time = no_time)
    /\ \A f \in RowFields \ {"Gust"} : Elements(st)[f].k = "absent" => row[f] = ""
    /\ (\A i \in 1..3 : GustPaths(st)[i].k = "absent") => row.Gust = ""
    /\ (\A i \in 1..4 : RainPaths(st)[i].k = "absent") => row.Rainfall = ""

HourlyParsedStations ==
    /\ variant = "hourly"
    /\ Done
    /\ data.has_records /\ data.has_Station
    /\ Len(data.Station) >= 1

\* C7 as stated: a station lacking optional parts never makes the hourly
\* parse fail, one row per station is produced, and every field whose source
\* is absent (the display time included) is the empty string, the region the
\* default marker.
C7_AbsentFieldsEmpty ==
    HourlyParsedStations =>
        /\ parsed.status = "returned"
        /\ Len(parsed.rows) = Len(data.Station)
        /\ \A i \in 1..Len(parsed.rows) : Degrades(data.Station[i], parsed.rows[i], "")

\* C7 amended: as above, but a missing timestamp leaves the display time at
\* the "no data" marker (the raw DateTime field is the empty string).
C7_AbsentFieldsDegrade ==
    HourlyParsedStations =>
        /\ parsed.status = "returned"
        /\ Len(parsed.rows) = Len(data.Station)
        /\ \A i \in 1..Len(parsed.rows) :
               Degrades(data.Station[i], parsed.rows[i], NoDataMarker)

\* a station with no name, no GeoInfo, no ObsTime and no WeatherElement
C7_Witness ==
    /\ HourlyParsedStations
    /\ \E i \in 1..Len(data.Station) :
           /\ data.Station[i].StationName.k = "absent"
           /\ data.Station[i].GeoInfo.k = "absent"
           /\ data.Station[i].ObsTime.k = "absent"
           /\ data.Station[i].WeatherElement.k = "absent"

\* C10: in the weekly parser the numeric temperature parse never raises: a
\* value that is no well-formed number gives 0 and the row is still produced.
C10_TemperatureParseNeverRaises ==
    (variant = "weekly" /\ Done) => parsed.error # "ValueError"

-----------------------------------------------------------------------------
(* Properties of the time normalizer (checked under SpecTime) *)

\* C8: in both variants convert_to_local_time returns the empty string for
\* empty input and returns unchanged every non-empty input without a 'T'.
C8_NoSeparatorPassesThrough ==
    \A i \in 1..Len(timeCalls) :
        /\ timeCalls[i].arg = "" => timeCalls[i].res = ""
        /\ (timeCalls[i].arg # "" /\ ~Contains(timeCalls[i].arg, "T"))
               => timeCalls[i].res = timeCalls[i].arg

\* C9: in both variants, when a call returned a degraded result (the empty
\* string, a passed-through input or the substring after the separator),
\* calling convert_to_local_time on that result returns it again.
C9_IdempotentOnDegraded ==
    \A i \in 1..(Len(timeCalls) - 1) :
        (timeCalls[i].res = "" \/ timeCalls[i].path \in {"passthrough", "substring"})
            => /\ timeCalls[i + 1].arg = timeCalls[i].res
               /\ timeCalls[i + 1].res = timeCalls[i].res

-----------------------------------------------------------------------------
(* Properties of the forecast row builder (checked under Spec) *)

\* the time series of the time-base element of loc (empty when it has none)
TimeBaseSlots(loc) ==
    SlotsAt(loc.WeatherElement, ElemIndex(loc.WeatherElement, TIME_BASE_KEY))

RECURSIVE SlotsBefore(_, _)
\* the number of time-base slots of the locations before the i-th
SlotsBefore(locs, i) ==
    IF i <= 1 THEN 0
    ELSE SlotsBefore(locs, i - 1) + Len(TimeBaseSlots(locs[i - 1]))

\* the entries of element name of loc that start when slot starts
MatchingEntries(loc, name, slot) ==
    LET e == ElemIndex(loc.WeatherElement, name)
    IN  IF e = 0 THEN {}
        ELSE {loc.WeatherElement[e].Time[k] : k \in
                 {k \in 1..Len(loc.WeatherElement[e].Time) :
                     StartOf(loc.WeatherElement[e].Time[k]) = StartOf(slot)}}

\* every element field of row is empty or taken from an entry matching slot
FromMatching(loc, slot, row) ==
    /\ row.Location = location_name_of(loc)
    /\ \/ row.Weather = Str("")
       \/ \E x \in MatchingEntries(loc, NameWeather, slot) :
              row.Weather = ElementVal(x.ElementValue)
    /\ \/ row.WeatherCode = Str("")
       \/ \E x \in MatchingEntries(loc, NameWeatherCode, slot) :
              row.WeatherCode = ElementVal(x.ElementValue)
    /\ \/ row.MaxT = "" /\ row.MaxTNum = Zero
       \/ \E x \in MatchingEntries(loc, NameMaxT, slot) :
              /\ row.MaxT = TempText(ElementVal(x.ElementValue))
              /\ row.MaxTNum = TempNumber(ElementVal(x.ElementValue)).num
    /\ \/ row.MinT = "" /\ row.MinTNum = Zero
       \/ \E x \in MatchingEntries(loc, NameMinT, slot) :
              /\ row.MinT = TempText(ElementVal(x.ElementValue))
              /\ row.MinTNum = TempNumber(ElementVal(x.ElementValue)).num

\* the built rows are one per time-base slot, location after location
RowsPerSlot ==
    /\ Len(parsed.rows) = SlotsBefore(data.Location, Len(data.Location) + 1)
    /\ \A i \in 1..Len(data.Location) :
           \A j \in 1..Len(TimeBaseSlots(data.Location[i])) :
               FromMatching(data.Location[i], TimeBaseSlots(data.Location[i])[j],
                            parsed.rows[SlotsBefore(data.Location, i) + j])

\* a forecast envelope with its containers whose elements all carry a name
WeeklyParsedLocations ==
    /\ variant = "weekly"
    /\ Done
    /\ ~MissingContainer
    /\ \A i \in 1..Len(data.Location) :
           \A e \in 1..Len(data.Location[i].WeatherElement) :
               data.Location[i].WeatherElement[e].ElementName.k # "absent"

\* C11: the weekly parse_weather_data emits, for every location, one row per
\* entry of the time series of its time-base element (none when that element
\* is absent or its series empty), and every element field of a row is taken
\* from an entry starting at the slot's start or stays empty (numeric 0).
C11_OneRowPerSlot ==
    WeeklyParsedLocations => (parsed.status = "returned" /\ RowsPerSlot)

\* C15: the hourly parse_weather_data returns normally for every envelope
\* that has records.Station, an empty list included: an empty list gives an
\* empty grouping and an empty identifier map, and the identifier map always
\* has the keys of the grouping.
C15_StationListAlwaysReturns ==
    (variant = "hourly" /\ Done /\ ~MissingContainer) =>
        /\ parsed.status = "returned"
        /\ Len(data.Station) = 0
               => (parsed.grouped = EmptyMap /\ parsed.id_map = EmptyMap)
        /\ DOMAIN parsed.id_map = DOMAIN parsed.grouped

-----------------------------------------------------------------------------
(* Properties of the main pipelines (checked under SpecMain) *)

Happened(ev) == \E i \in 1..Len(events) : events[i] = ev

RunEnded == status # "running"

\* C12: in both pipelines a run in which a fatal error occurred at any stage
\* ends with a non-zero exit status, and a run ends with exit status zero
\* only if the report was delivered.
C12_FatalErrorExitsNonZero ==
    RunEnded =>
        /\ caught.stage # "" => status # "exit 0"
        /\ status = "exit 0" => Happened("delivered")

\* C13: in both pipelines no run ends with a failed delivery (the messaging
\* call raised, timed out or answered with a non-2xx status) and the report
\* file still on disk.
C13_FailedDeliveryRemovesReport ==
    (RunEnded /\ caught.stage = "delivery") => "report" \notin disk

\* one of the three credential files is missing or holds nothing but white space
ConfigError == \E f \in DOMAIN creds : creds[f] # "ok"

\* C14: in both pipelines a configuration error aborts the run before any
\* network call (neither the upstream GET nor the upload POST is ever made,
\* and the run ends with the configuration error), and in every run the
\* credential load has completed before the first network call.
C14_ConfigBeforeNetwork ==
    /\ ConfigError =>
           /\ ~Happened("GET") /\ ~Happened("POST")
           /\ RunEnded => caught.stage = "config"
    /\ \A i \in 1..Len(events) :
           events[i] \in {"GET", "POST"}
               => \E j \in 1..(i - 1) : events[j] = "loaded"

\* a run ended on credential files that all exist, one holding only white space
C14_Witness ==
    /\ pc = "done"
    /\ RunEnded
    /\ \A f \in DOMAIN creds : creds[f] # "missing"
    /\ \E f \in DOMAIN creds : creds[f] = "blank"

====
